---- MODULE Spec2Model ----
(***************************************************************************)
(* A model of darklua's dense Lua generator (src/src/generator/dense.rs)   *)
(* and of the first LuaGenerator (src/src/lua_generator.rs).               *)
(*                                                                         *)
(* A string is a sequence of one-character strings; all characters are     *)
(* ASCII, so str::len (bytes) and the number of chars agree.               *)
(***************************************************************************)
EXTENDS Integers, Sequences, FiniteSets, TLC

VARIABLES
    column_span,          \* DenseLuaGenerator.column_span
    current_line_length,  \* DenseLuaGenerator.current_line_length
    output,               \* DenseLuaGenerator.output
    last_push_length,     \* DenseLuaGenerator.last_push_length
    lua_generator,        \* a LuaGenerator (lua_generator.rs) given the same pushes
    calls,                \* history: the primitive calls made so far, in order
    relocated,            \* history: the last call was a merge_char that relocated
    statements,           \* walker: the statements of the block being written, by number
    last_statement,       \* walker: the block's last statement (0 when absent)
    index,                \* walker: number of statements of the block already written
    pc,                   \* walker: position in write_block
    count,                \* maybe_plural: the argument
    plural,               \* maybe_plural: the string returned
    locals                \* merge_char: its argument and locals (<<>> outside a call)

vars == <<column_span, current_line_length, output, last_push_length,
          lua_generator, calls, relocated, statements, last_statement, index, pc,
          count, plural, locals>>

gen_vars == <<column_span, current_line_length, output, last_push_length>>
walk_vars == <<statements, last_statement, index, pc>>
plural_vars == <<count, plural>>

(***************************************************************************)
(* Bounds of the model.                                                    *)
(***************************************************************************)
\* column budgets of the runs of the primitives range over 1..MaxSpan
MaxSpan == 5
\* column budgets of the runs of write_block range over 1..MaxWalkSpan
MaxWalkSpan == 8
\* number of primitive calls in a run of the primitives
MaxOps == 4
\* number of statements of a block
MaxStatements == 2

\* number of elements of a comma-separated list
MaxList == 3

\* maybe_plural is called with the counts 0..MaxCount
MaxCount == 64

\* number of primitive calls in a run with merge_char taken step by step
MaxMergeOps == 4

\* the column budget of Default::default()
DefaultSpan == 80

(***************************************************************************)
(* Characters.                                                             *)
(***************************************************************************)
Letters == {"a", "b", "c", "d", "e", "f", "g", "h", "i", "j", "k", "l", "m",
            "n", "o", "p", "q", "r", "s", "t", "u", "v", "w", "x", "y", "z",
            "A", "B", "C", "D", "E", "F", "G", "H", "I", "J", "K", "L", "M",
            "N", "O", "P", "Q", "R", "S", "T", "U", "V", "W", "X", "Y", "Z"}

Digits == {"0", "1", "2", "3", "4", "5", "6", "7", "8", "9"}

Space == " "

NewLine == "\n"

Last(s) == s[Len(s)]

Front(s) == SubSeq(s, 1, Len(s) - 1)

Max(a, b) == IF a >= b THEN a ELSE b

\* mutant: the digits are forgotten
is_relevant_for_spacing_no_digit(character) ==
    character \in Letters \/ character = "_"

\* fn is_relevant_for_spacing(character: &char) -> bool
is_relevant_for_spacing(character) ==
    character \in Letters \/ character \in Digits \/ character = "_"

(***************************************************************************)
(* The break predicates of generator::utils, which take the last pushed    *)
(* fragment.                                                               *)
(***************************************************************************)
break_concat(last_string) ==
    /\ last_string # <<>>
    /\ (Last(last_string) \in Digits \/ Last(last_string) = ".")

break_minus(last_string) ==
    /\ last_string # <<>>
    /\ Last(last_string) = "-"

break_variable_arguments(last_string) ==
    /\ last_string # <<>>
    /\ (Last(last_string) = "." \/ Last(last_string) \in Digits)

break_long_string(last_string) ==
    /\ last_string # <<>>
    /\ Last(last_string) = "["

\* the predicate argument F of push_str_and_break_if, by name
apply_predicate(predicate, last_string) ==
    CASE predicate = "break_concat" -> break_concat(last_string)
      [] predicate = "break_minus" -> break_minus(last_string)
      [] predicate = "break_variable_arguments" -> break_variable_arguments(last_string)
      [] predicate = "break_long_string" -> break_long_string(last_string)

(***************************************************************************)
(* DenseLuaGenerator.  A generator value g is the record of its fields.    *)
(***************************************************************************)
\* mutant: the line is taken to be full already
new_with_full_line(span) ==
    [column_span |-> span,
     current_line_length |-> span,
     output |-> <<>>,
     last_push_length |-> 0]

\* pub fn new(column_span: usize) -> Self
new(span) ==
    [column_span |-> span,
     current_line_length |-> 0,
     output |-> <<>>,
     last_push_length |-> 0]

\* impl Default for DenseLuaGenerator
default == new(DefaultSpan)

\* mutant: the column is not reset
push_new_line_keeps_column(g) ==
    [g EXCEPT !.output = Append(@, NewLine)]

\* fn push_new_line(&mut self)
push_new_line(g) ==
    [g EXCEPT !.output = Append(@, NewLine),
              !.current_line_length = 0]

\* fn push_space(&mut self)
push_space(g) ==
    [g EXCEPT !.output = Append(@, Space),
              !.current_line_length = @ + 1]

\* mutant: the pushed length is left out of the comparison
fits_on_current_line_ignores_length(g, length) ==
    g.current_line_length <= g.column_span

\* fn fits_on_current_line(&self, length: usize) -> bool
fits_on_current_line(g, length) ==
    g.current_line_length + length <= g.column_span

\* fn needs_space(&self, next_character: char) -> bool
needs_space(g, next_character) ==
    /\ is_relevant_for_spacing(next_character)
    /\ g.output # <<>>
    /\ is_relevant_for_spacing(Last(g.output))

\* mutant: the space is pushed without asking whether it fits
push_space_if_needed_always_space(g, next_character, pushed_length) ==
    IF g.current_line_length >= g.column_span
    THEN push_new_line(g)
    ELSE LET total_length == g.current_line_length + pushed_length
         IN  IF needs_space(g, next_character)
             THEN [g EXCEPT !.output = Append(@, Space),
                            !.current_line_length = @ + 1]
             ELSE IF total_length > g.column_span
                  THEN push_new_line(g)
                  ELSE g

\* mutant: the space is left out of the length compared with the budget
push_space_if_needed_space_uncounted(g, next_character, pushed_length) ==
    IF g.current_line_length >= g.column_span
    THEN push_new_line(g)
    ELSE LET total_length == g.current_line_length + pushed_length
         IN  IF total_length > g.column_span
             THEN push_new_line(g)
             ELSE IF needs_space(g, next_character)
                  THEN [g EXCEPT !.output = Append(@, Space),
                                 !.current_line_length = @ + 1]
                  ELSE g

\* mutant: the space is pushed also when the line is then broken
push_space_if_needed_space_before_break(g, next_character, pushed_length) ==
    IF g.current_line_length >= g.column_span
    THEN push_new_line(g)
    ELSE LET total_length == g.current_line_length + pushed_length
         IN  IF needs_space(g, next_character)
             THEN IF total_length + 1 > g.column_span
                  THEN push_new_line([g EXCEPT !.output = Append(@, Space)])
                  ELSE [g EXCEPT !.output = Append(@, Space),
                                 !.current_line_length = @ + 1]
             ELSE IF total_length > g.column_span
                  THEN push_new_line(g)
                  ELSE g

\* fn push_space_if_needed(&mut self, next_character: char, pushed_length: usize)
push_space_if_needed(g, next_character, pushed_length) ==
    IF g.current_line_length >= g.column_span
    THEN push_new_line(g)
    ELSE LET total_length == g.current_line_length + pushed_length
         IN  IF needs_space(g, next_character)
             THEN IF total_length + 1 > g.column_span
                  THEN push_new_line(g)
                  ELSE [g EXCEPT !.output = Append(@, Space),
                                 !.current_line_length = @ + 1]
             ELSE IF total_length > g.column_span
                  THEN push_new_line(g)
                  ELSE g

\* pub fn into_string(self) -> String
into_string(g) == g.output

\* fn raw_push_str(&mut self, content: &str)
raw_push_str(g, content) ==
    [g EXCEPT !.output = @ \o content,
              !.last_push_length = Len(content),
              !.current_line_length = @ + Len(content)]

\* fn raw_push_char(&mut self, character: char)
raw_push_char(g, character) ==
    [g EXCEPT !.output = Append(@, character),
              !.last_push_length = 1,
              !.current_line_length = @ + 1]

\* fn get_last_push_str(&self) -> &str
\* (output.len() - last_push_length underflows when last_push_length is the
\* larger; str::get then yields None and the result is "")
get_last_push_str(g) ==
    IF g.last_push_length <= Len(g.output)
    THEN SubSeq(g.output, Len(g.output) - g.last_push_length + 1, Len(g.output))
    ELSE <<>>

\* mutant: a full line is broken after the fragment instead of before the next
push_str_breaks_after(g, content) ==
    IF content # <<>>
    THEN LET pushed == raw_push_str(push_space_if_needed(g, content[1], Len(content)),
                                    content)
         IN  IF pushed.current_line_length >= pushed.column_span
             THEN push_new_line(pushed)
             ELSE pushed
    ELSE g

\* fn push_str(&mut self, content: &str)
push_str(g, content) ==
    IF content # <<>>
    THEN raw_push_str(push_space_if_needed(g, content[1], Len(content)), content)
    ELSE g

\* mutant: last_push_length is not set
push_char_keeps_last_length(g, character) ==
    LET spaced == push_space_if_needed(g, character, 1)
    IN  [spaced EXCEPT !.output = Append(@, character),
                       !.current_line_length = @ + 1]

\* mutant: the character is not counted in the length given to push_space_if_needed
push_char_uncounted(g, character) ==
    LET spaced == push_space_if_needed(g, character, 0)
    IN  [spaced EXCEPT !.output = Append(@, character),
                       !.current_line_length = @ + 1,
                       !.last_push_length = 1]

\* fn push_char(&mut self, character: char)
push_char(g, character) ==
    LET spaced == push_space_if_needed(g, character, 1)
    IN  [spaced EXCEPT !.output = Append(@, character),
                       !.current_line_length = @ + 1,
                       !.last_push_length = 1]

\* (0..self.last_push_length).for_each(|_| { self.output.pop(); })
RECURSIVE pop_times(_, _)
pop_times(out, n) ==
    IF n = 0 \/ out = <<>> THEN out ELSE pop_times(Front(out), n - 1)

\* let mut last_char = self.output.pop();
\* while let Some(' ') = last_char { last_char = self.output.pop(); }
\* if let Some(last_char) = last_char { self.output.push(last_char); }
RECURSIVE pop_spaces(_)
pop_spaces(out) ==
    IF out = <<>> THEN out
    ELSE IF Last(out) = Space THEN pop_spaces(Front(out))
    ELSE out

\* mutant: a full line is broken before the character, as push_char does
merge_char_breaks_line(g, character) ==
    IF fits_on_current_line(g, 1)
    THEN raw_push_char(g, character)
    ELSE raw_push_char(push_new_line(g), character)

\* mutant: current_line_length is assigned before last_push_length is incremented
merge_char_stale_length(g, character) ==
    IF fits_on_current_line(g, 1)
    THEN raw_push_char(g, character)
    ELSE LET last_push_content == get_last_push_str(g)
             popped == pop_spaces(pop_times(g.output, g.last_push_length))
         IN  [g EXCEPT !.output = (Append(popped, NewLine) \o last_push_content)
                                      \o <<character>>,
                       !.last_push_length = g.last_push_length + 1,
                       !.current_line_length = g.last_push_length]

\* mutant: the spaces before the relocated fragment are kept
merge_char_keeps_spaces(g, character) ==
    IF fits_on_current_line(g, 1)
    THEN raw_push_char(g, character)
    ELSE LET last_push_content == get_last_push_str(g)
             popped == pop_times(g.output, g.last_push_length)
         IN  [g EXCEPT !.output = (Append(popped, NewLine) \o last_push_content)
                                      \o <<character>>,
                       !.last_push_length = g.last_push_length + 1,
                       !.current_line_length = g.last_push_length + 1]

\* mutant: the relocation does not push the removed fragment again
merge_char_drops_fragment(g, character) ==
    IF fits_on_current_line(g, 1)
    THEN raw_push_char(g, character)
    ELSE LET popped == pop_spaces(pop_times(g.output, g.last_push_length))
         IN  [g EXCEPT !.output = Append(popped, NewLine) \o <<character>>,
                       !.last_push_length = g.last_push_length + 1,
                       !.current_line_length = g.last_push_length + 1]

\* fn merge_char(&mut self, character: char)
merge_char(g, character) ==
    IF fits_on_current_line(g, 1)
    THEN raw_push_char(g, character)
    ELSE LET last_push_content == get_last_push_str(g)
             popped == pop_spaces(pop_times(g.output, g.last_push_length))
         IN  [g EXCEPT !.output = (Append(popped, NewLine) \o last_push_content)
                                      \o <<character>>,
                       !.last_push_length = g.last_push_length + 1,
                       !.current_line_length = g.last_push_length + 1]

\* mutant: the predicate is not consulted, the line is broken only on overflow
push_str_and_break_if_unbroken(g, content, predicate) ==
    raw_push_str(IF ~fits_on_current_line(g, Len(content))
                 THEN push_new_line(g)
                 ELSE g,
                 content)

\* mutant: the forced space is left out of the length compared with the budget
push_str_and_break_if_space_uncounted(g, content, predicate) ==
    LET broken ==
            IF apply_predicate(predicate, get_last_push_str(g))
            THEN IF fits_on_current_line(g, Len(content))
                 THEN push_space(g)
                 ELSE push_new_line(g)
            ELSE IF ~fits_on_current_line(g, Len(content))
                 THEN push_new_line(g)
                 ELSE g
    IN  raw_push_str(broken, content)

\* fn push_str_and_break_if<F>(&mut self, content: &str, predicate: F)
push_str_and_break_if(g, content, predicate) ==
    LET broken ==
            IF apply_predicate(predicate, get_last_push_str(g))
            THEN IF fits_on_current_line(g, 1 + Len(content))
                 THEN push_space(g)
                 ELSE push_new_line(g)
            ELSE IF ~fits_on_current_line(g, Len(content))
                 THEN push_new_line(g)
                 ELSE g
    IN  raw_push_str(broken, content)

(***************************************************************************)
(* LuaGenerator (lua_generator.rs).  A generator value l is the record of  *)
(* its fields.                                                             *)
(***************************************************************************)
\* LuaGenerator::new
lua_new(span) ==
    [column_span |-> span,
     current_line_length |-> 0,
     output |-> <<>>]

\* impl Default for LuaGenerator
lua_default == lua_new(DefaultSpan)

\* LuaGenerator::push_new_line
lua_push_new_line(l) ==
    [l EXCEPT !.output = Append(@, NewLine),
              !.current_line_length = 0]

\* LuaGenerator::needs_space
lua_needs_space(l, next_character) ==
    /\ is_relevant_for_spacing(next_character)
    /\ l.output # <<>>
    /\ is_relevant_for_spacing(Last(l.output))

\* LuaGenerator::push_space_if_needed
lua_push_space_if_needed(l, next_character, pushed_length) ==
    IF l.current_line_length >= l.column_span
    THEN lua_push_new_line(l)
    ELSE LET total_length == l.current_line_length + pushed_length
         IN  IF lua_needs_space(l, next_character)
             THEN IF total_length + 1 > l.column_span
                  THEN lua_push_new_line(l)
                  ELSE [l EXCEPT !.output = Append(@, Space),
                                 !.current_line_length = @ + 1]
             ELSE IF total_length > l.column_span
                  THEN lua_push_new_line(l)
                  ELSE l

\* LuaGenerator::into_string
lua_into_string(l) == l.output

\* LuaGenerator::push_str
lua_push_str(l, content) ==
    IF content # <<>>
    THEN LET spaced == lua_push_space_if_needed(l, content[1], Len(content))
         IN  [spaced EXCEPT !.output = @ \o content,
                            !.current_line_length = @ + Len(content)]
    ELSE l

\* LuaGenerator::push_char
lua_push_char(l, character) ==
    LET spaced == lua_push_space_if_needed(l, character, 1)
    IN  [spaced EXCEPT !.output = Append(@, character),
                       !.current_line_length = @ + 1]

\* LuaGenerator::push_char_force_without_space
lua_push_char_force_without_space(l, character) ==
    [l EXCEPT !.output = Append(@, character),
              !.current_line_length = @ + 1]

(***************************************************************************)
(* A primitive call is a tuple <<op, content, predicate>>; push_char and   *)
(* merge_char carry their character as a one-character content.            *)
(***************************************************************************)
PushStr(content) == <<"push_str", content, "none">>

PushChar(character) == <<"push_char", <<character>>, "none">>

MergeChar(character) == <<"merge_char", <<character>>, "none">>

PushStrAndBreakIf(content, predicate) ==
    <<"push_str_and_break_if", content, predicate>>

OpOf(call) == call[1]

Content(call) == call[2]

PredicateOf(call) == call[3]

\* the generator after one primitive call
apply_call(g, call) ==
    CASE OpOf(call) = "push_str" -> push_str(g, Content(call))
      [] OpOf(call) = "push_char" -> push_char(g, Content(call)[1])
      [] OpOf(call) = "merge_char" -> merge_char(g, Content(call)[1])
      [] OpOf(call) = "push_str_and_break_if" ->
             push_str_and_break_if(g, Content(call), PredicateOf(call))

\* the LuaGenerator after the same call, where it has the primitive:
\* push_char_force_without_space stands where merge_char does
lua_apply_call(l, call) ==
    CASE OpOf(call) = "push_str" -> lua_push_str(l, Content(call))
      [] OpOf(call) = "push_char" -> lua_push_char(l, Content(call)[1])
      [] OpOf(call) = "merge_char" ->
             lua_push_char_force_without_space(l, Content(call)[1])
      [] OpOf(call) = "push_str_and_break_if" -> l

\* the LuaGenerator after a sequence of calls, in order
RECURSIVE lua_apply_calls(_, _)
lua_apply_calls(l, cs) ==
    IF cs = <<>> THEN l ELSE lua_apply_calls(lua_apply_call(l, Head(cs)), Tail(cs))

\* the closures given to for_each_and_between, by name: push_name pushes
\* the name of an identifier, push_comma pushes a comma
call_for_each(for_each, l, element) ==
    CASE for_each = "push_name" -> lua_push_str(l, element[2])

call_between(between, l) ==
    CASE between = "push_comma" -> lua_push_char(l, ",")

\* LuaGenerator::for_each_and_between, the iteration from the element at
\* position on (position - 1 is the index of enumerate())
RECURSIVE for_each_and_between_loop(_, _, _, _, _, _)
for_each_and_between_loop(l, vector, for_each, between, position, last_index) ==
    IF position > Len(vector) THEN l
    ELSE LET called == call_for_each(for_each, l, vector[position])
             separated == IF position - 1 # last_index
                          THEN call_between(between, called)
                          ELSE called
         IN  for_each_and_between_loop(separated, vector, for_each, between,
                                       position + 1, last_index)

\* pub fn for_each_and_between<T, F, G>(&mut self, vector: &Vec<T>, for_each: F, between: G)
\* last_index is vector.len().checked_sub(1).unwrap_or(0)
for_each_and_between(l, vector, for_each, between) ==
    for_each_and_between_loop(l, vector, for_each, between, 1,
                              IF Len(vector) >= 1 THEN Len(vector) - 1 ELSE 0)

\* the generator after a sequence of primitive calls, in order
RECURSIVE apply_calls(_, _)
apply_calls(g, cs) ==
    IF cs = <<>> THEN g ELSE apply_calls(apply_call(g, Head(cs)), Tail(cs))

\* the generator of the current state
Gen ==
    [column_span |-> column_span,
     current_line_length |-> current_line_length,
     output |-> output,
     last_push_length |-> last_push_length]

SetGen(g) ==
    /\ column_span' = g.column_span
    /\ current_line_length' = g.current_line_length
    /\ output' = g.output
    /\ last_push_length' = g.last_push_length

(***************************************************************************)
(* Spec: the primitives, called in any order on a generator of any budget  *)
(* in 1..MaxSpan.  The fragments are those the walker pushes: names,       *)
(* keywords, numbers, punctuation; push_str_and_break_if is called with    *)
(* the contents and predicates of its four call sites.                     *)
(***************************************************************************)
Spans == (1..MaxSpan) \cup {DefaultSpan}

WalkSpans == 1..MaxWalkSpan

StrFragments ==
    { <<"a">>, <<"b", "1">>, <<"e", "n", "d">>, <<"(", ")">>, <<"-">> }

CharFragments == { "x", "," }

MergeChars == { "(" }

BreakCalls ==
    { PushStrAndBreakIf(<<".", ".">>, "break_concat"),
      PushStrAndBreakIf(<<"-">>, "break_minus"),
      PushStrAndBreakIf(<<".", ".", ".">>, "break_variable_arguments"),
      PushStrAndBreakIf(<<"[", "[", "]", "]">>, "break_long_string") }

Init ==
    /\ column_span \in Spans
    /\ current_line_length = new(column_span).current_line_length
    /\ output = new(column_span).output
    /\ last_push_length = new(column_span).last_push_length
    /\ lua_generator = lua_new(column_span)
    /\ calls = <<>>
    /\ relocated = FALSE
    /\ statements = <<>>
    /\ last_statement = 0
    /\ index = 0
    /\ pc = "primitives"
    /\ count = 0
    /\ plural = <<>>
    /\ locals = <<>>

Call(call) ==
    /\ Len(calls) < MaxOps
    /\ SetGen(apply_call(Gen, call))
    /\ lua_generator' = lua_apply_call(lua_generator, call)
    /\ calls' = Append(calls, call)
    /\ relocated' = (OpOf(call) = "merge_char" /\ ~fits_on_current_line(Gen, 1))
    /\ UNCHANGED walk_vars
    /\ UNCHANGED plural_vars
    /\ UNCHANGED locals

DoPushStr == \E content \in StrFragments : Call(PushStr(content))

DoPushChar == \E character \in CharFragments : Call(PushChar(character))

\* write_tuple_arguments runs after the call's prefix has been written
DoMergeChar ==
    /\ output # <<>>
    /\ \E character \in MergeChars : Call(MergeChar(character))

DoPushStrAndBreakIf == \E call \in BreakCalls : Call(call)

Next ==
    \/ DoPushStr
    \/ DoPushChar
    \/ DoMergeChar
    \/ DoPushStrAndBreakIf

Spec == Init /\ [][Next]_vars

(***************************************************************************)
(* The nodes of the syntax tree.  A node is a tuple whose first element    *)
(* names its variant; an Option is <<>> (None) or <<v>> (Some(v)).         *)
(***************************************************************************)
Variant(node) == node[1]

None == <<>>

Some(v) == <<v>>

IsSome(option) == option # <<>>

Unwrap(option) == option[1]

\* nodes::Identifier
Identifier(name) == <<"Identifier", name>>

\* nodes::NumberExpression::Decimal; class is "nan", "infinite",
\* "negative_infinite" or "finite", and a finite float is tenths / 10
DecimalNumber(class, tenths, exponent, is_uppercase) ==
    <<"Number", "Decimal", class, tenths, exponent, is_uppercase>>

\* nodes::NumberExpression::Hex
HexNumber(is_x_uppercase, raw_integer, exponent, is_exponent_uppercase) ==
    <<"Number", "Hex", is_x_uppercase, raw_integer, exponent, is_exponent_uppercase>>

\* nodes::NumberExpression::Binary
BinaryNumber(is_b_uppercase, raw_value) ==
    <<"Number", "Binary", is_b_uppercase, raw_value>>

BinaryExpression(operator, left, right) == <<"Binary", operator, left, right>>

UnaryExpression(operator, expression) == <<"Unary", operator, expression>>

ParentheseExpression(expression) == <<"Parenthese", expression>>

FieldExpression(prefix, field) == <<"Field", prefix, field>>

IndexExpression(prefix, expression) == <<"Index", prefix, expression>>

TupleArguments(values) == <<"Tuple", values>>

FunctionCall(prefix, method, arguments) == <<"Call", prefix, method, arguments>>

VariableArguments == <<"VariableArguments">>

AssignStatement(variables, values) == <<"Assign", variables, values>>

LocalAssignStatement(variables, values) == <<"LocalAssign", variables, values>>

DoStatement(block) == <<"Do", block>>

\* nodes::FunctionExpression
FunctionExpression(block, parameters, is_variadic) ==
    <<"Function", block, parameters, is_variadic>>

\* nodes::LocalFunctionStatement
LocalFunctionStatement(name, block, parameters, is_variadic) ==
    <<"LocalFunction", block, parameters, is_variadic, name>>

\* nodes::FunctionName
FunctionName(name, field_names, method) == <<"FunctionName", name, field_names, method>>

\* nodes::FunctionStatement
FunctionStatement(name, block, parameters, is_variadic) ==
    <<"FunctionStatement", block, parameters, is_variadic, name>>

\* nodes::GenericForStatement
GenericForStatement(identifiers, expressions, block) ==
    <<"GenericFor", identifiers, expressions, block>>

\* nodes::TableExpression
TableExpression(entries) == <<"Table", entries>>

\* nodes::TableEntry::Field
FieldEntry(field, value) == <<"Field", field, value>>

\* nodes::TableEntry::Index
IndexEntry(key, value) == <<"Index", key, value>>

\* nodes::TableEntry::Value
ValueEntry(expression) == <<"Value", expression>>

\* nodes::Block: its statements and its optional last statement
Block(block_statements, block_last_statement) ==
    <<block_statements, block_last_statement>>

Break == <<"Break">>

Continue == <<"Continue">>

Return(expressions) == <<"Return", expressions>>

(***************************************************************************)
(* Operators: their text and their precedence (nodes::BinaryOperator).     *)
(***************************************************************************)
\* BinaryOperator::to_str
to_str(operator) ==
    CASE operator = "Concat" -> <<".", ".">>
      [] operator = "Minus" -> <<"-">>
      [] operator = "Plus" -> <<"+">>
      [] operator = "Slash" -> <<"/">>
      [] operator = "Pow" -> <<"^">>

\* Lua's precedence levels of the binary operators
precedence(operator) ==
    CASE operator = "Concat" -> 4
      [] operator = "Minus" -> 5
      [] operator = "Plus" -> 5
      [] operator = "Slash" -> 6
      [] operator = "Pow" -> 8

is_right_associative(operator) == operator \in {"Concat", "Pow"}

\* BinaryOperator::precedes_unary_expression
precedes_unary_expression(operator) == operator = "Pow"

\* BinaryOperator::left_needs_parentheses
left_needs_parentheses(operator, left) ==
    \/ /\ Variant(left) = "Binary"
       /\ \/ precedence(left[2]) < precedence(operator)
          \/ /\ precedence(left[2]) = precedence(operator)
             /\ is_right_associative(operator)
    \/ /\ Variant(left) = "Unary"
       /\ precedes_unary_expression(operator)

\* BinaryOperator::right_needs_parentheses
right_needs_parentheses(operator, right) ==
    /\ Variant(right) = "Binary"
    /\ \/ precedence(right[2]) < precedence(operator)
       \/ /\ precedence(right[2]) = precedence(operator)
          /\ ~is_right_associative(operator)

(***************************************************************************)
(* Formatting of integers: format!("{}", n), format!("{:x}", n) and        *)
(* format!("{:b}", n).                                                     *)
(***************************************************************************)
DigitChars ==
    <<"0", "1", "2", "3", "4", "5", "6", "7", "8", "9", "a", "b", "c", "d", "e", "f">>

RECURSIVE format_radix(_, _)
format_radix(n, radix) ==
    IF n < radix
    THEN <<DigitChars[n + 1]>>
    ELSE Append(format_radix(n \div radix, radix), DigitChars[(n % radix) + 1])

\* format!("{}", float) of the finite float tenths / 10
format_float(tenths) ==
    IF tenths % 10 = 0
    THEN format_radix(tenths \div 10, 10)
    ELSE (format_radix(tenths \div 10, 10) \o <<".">>)
             \o format_radix(tenths % 10, 10)

(***************************************************************************)
(* The walker (impl LuaGenerator for DenseLuaGenerator).  Each write_       *)
(* function is the sequence of primitive calls it makes on self, in order; *)
(* apply_calls runs them on the generator.                                 *)
(***************************************************************************)
RECURSIVE write_expression(_)
RECURSIVE write_expressions(_, _)
RECURSIVE write_block(_)
RECURSIVE write_statement(_)

\* fn write_identifier
write_identifier(identifier) == <<PushStr(identifier[2])>>

\* fn write_number
write_number(number) ==
    CASE number[2] = "Decimal" ->
             IF number[3] = "nan"
             THEN <<PushChar("("), PushChar("0"), PushChar("/"), PushChar("0"),
                    PushChar(")")>>
             ELSE IF number[3] \in {"infinite", "negative_infinite"}
             THEN (<<PushChar("(")>>
                      \o (IF number[3] = "negative_infinite"
                          THEN <<PushChar("-")>> ELSE <<>>))
                      \o <<PushChar("1"), PushChar("/"), PushChar("0"), PushChar(")")>>
             ELSE LET float == format_float(number[4])
                      exponent_char ==
                          IF IsSome(number[6]) /\ Unwrap(number[6]) THEN "E" ELSE "e"
                      result ==
                          IF IsSome(number[5])
                          THEN Append(float, exponent_char)
                                   \o format_radix(Unwrap(number[5]), 10)
                          ELSE float
                  IN  <<PushStr(result)>>
      [] number[2] = "Hex" ->
             LET digits == <<"0", IF number[3] THEN "X" ELSE "x">>
                               \o format_radix(number[4], 16)
                 exponent_char ==
                     IF IsSome(number[6]) /\ Unwrap(number[6]) THEN "P" ELSE "p"
                 result ==
                     IF IsSome(number[5])
                     THEN Append(digits, exponent_char)
                              \o format_radix(Unwrap(number[5]), 10)
                     ELSE digits
             IN  <<PushStr(result)>>
      [] number[2] = "Binary" ->
             <<PushStr(<<"0", IF number[3] THEN "B" ELSE "b">>
                           \o format_radix(number[4], 2))>>

\* fn write_parenthese
write_parenthese(parenthese) ==
    (<<PushChar("(")>> \o write_expression(parenthese[2])) \o <<PushChar(")")>>

\* LuaGenerator::write_prefix
write_prefix(prefix) == write_expression(prefix)

\* fn write_field
write_field(field) ==
    (write_prefix(field[2]) \o <<PushChar(".")>>) \o <<PushStr(field[3][2])>>

\* fn write_index
write_index(node) ==
    ((write_prefix(node[2]) \o <<PushChar("[")>>) \o write_expression(node[3]))
        \o <<PushChar("]")>>

\* the loop shared by the comma-separated lists of expressions:
\* values.enumerate().for_each(|(index, value)| {
\*     self.write_expression(value);
\*     if index != last_index { self.push_char(','); } })
write_expressions(values, last_index) ==
    IF values = <<>> THEN <<>>
    ELSE LET position == Len(values) - 1
         IN  (write_expressions(Front(values), last_index)
                 \o write_expression(Last(values)))
                 \o (IF position # last_index THEN <<PushChar(",")>> ELSE <<>>)

\* the loop shared by the comma-separated lists of names:
\* variables.iter().enumerate().for_each(|(index, variable)| {
\*     self.push_str(variable.get_name());
\*     if index != last_index { self.push_char(','); } })
RECURSIVE write_names(_, _)
write_names(names, last_index) ==
    IF names = <<>> THEN <<>>
    ELSE LET position == Len(names) - 1
         IN  (write_names(Front(names), last_index) \o <<PushStr(Last(names)[2])>>)
                 \o (IF position # last_index THEN <<PushChar(",")>> ELSE <<>>)

\* fn write_tuple_arguments
write_tuple_arguments(arguments) ==
    (<<MergeChar("(")>>
        \o write_expressions(arguments[2], Max(Len(arguments[2]), 1) - 1))
        \o <<PushChar(")")>>

\* LuaGenerator::write_arguments
write_arguments(arguments) ==
    CASE Variant(arguments) = "Tuple" -> write_tuple_arguments(arguments)

\* fn write_function_call
write_function_call(call) ==
    (write_prefix(call[2])
        \o (IF IsSome(call[3])
            THEN <<PushChar(":"), PushStr(Unwrap(call[3])[2])>>
            ELSE <<>>))
        \o write_arguments(call[4])

\* fn write_binary_expression
write_binary_expression(binary) ==
    LET operator == binary[2]
        left == binary[3]
        right == binary[4]
    IN  ((IF left_needs_parentheses(operator, left)
          THEN (<<PushChar("(")>> \o write_expression(left)) \o <<PushChar(")")>>
          ELSE write_expression(left))
            \o (IF operator = "Concat"
                THEN <<PushStrAndBreakIf(<<".", ".">>, "break_concat")>>
                ELSE <<PushStr(to_str(operator))>>))
            \o (IF right_needs_parentheses(operator, right)
                THEN (<<PushChar("(")>> \o write_expression(right))
                         \o <<PushChar(")")>>
                ELSE write_expression(right))

\* fn write_unary_expression
write_unary_expression(unary) ==
    LET expression == unary[3]
    IN  (CASE unary[2] = "Length" -> <<PushChar("#")>>
           [] unary[2] = "Minus" -> <<PushStrAndBreakIf(<<"-">>, "break_minus")>>
           [] unary[2] = "Not" -> <<PushStr(<<"n", "o", "t">>)>>)
            \o (IF Variant(expression) = "Binary"
                   /\ ~precedes_unary_expression(expression[2])
                THEN (<<PushChar("(")>> \o write_expression(expression))
                         \o <<PushChar(")")>>
                ELSE write_expression(expression))

\* nodes::Block::is_empty
is_empty(block) == block[1] = <<>> /\ ~IsSome(block[2])

\* fn write_function_parameters
write_function_parameters(parameters, is_variadic) ==
    write_names(parameters, Max(Len(parameters), 1) - 1)
        \o (IF is_variadic
            THEN (IF parameters # <<>> THEN <<PushChar(",")>> ELSE <<>>)
                     \o <<PushStr(<<".", ".", ".">>)>>
            ELSE <<>>)

\* write_function_statement: name.get_field_names().iter().for_each(|field| {
\*     self.push_char('.'); self.push_str(field.get_name()); })
RECURSIVE write_field_names(_)
write_field_names(field_names) ==
    IF field_names = <<>> THEN <<>>
    ELSE write_field_names(Front(field_names))
             \o <<PushChar("."), PushStr(Last(field_names)[2])>>

\* mutant: the closing end is written only after a block
write_function_statement_unclosed(function) ==
    LET name == function[5]
    IN  ((((<<PushStr(<<"f", "u", "n", "c", "t", "i", "o", "n">>), PushStr(name[2][2])>>
               \o write_field_names(name[3]))
              \o (IF IsSome(name[4])
                  THEN <<PushChar(":"), PushStr(Unwrap(name[4])[2])>>
                  ELSE <<>>))
             \o <<PushChar("(")>>)
            \o write_function_parameters(function[3], function[4]))
            \o <<PushChar(")")>>
            \o (IF ~is_empty(function[2])
                THEN write_block(function[2]) \o <<PushStr(<<"e", "n", "d">>)>>
                ELSE <<>>)

\* fn write_function_statement
write_function_statement(function) ==
    LET name == function[5]
    IN  ((((<<PushStr(<<"f", "u", "n", "c", "t", "i", "o", "n">>), PushStr(name[2][2])>>
               \o write_field_names(name[3]))
              \o (IF IsSome(name[4])
                  THEN <<PushChar(":"), PushStr(Unwrap(name[4])[2])>>
                  ELSE <<>>))
             \o <<PushChar("(")>>)
            \o write_function_parameters(function[3], function[4]))
            \o <<PushChar(")")>>
            \o (IF ~is_empty(function[2]) THEN write_block(function[2]) ELSE <<>>)
            \o <<PushStr(<<"e", "n", "d">>)>>

\* fn write_local_function
write_local_function(function) ==
    ((<<PushStr(<<"l", "o", "c", "a", "l", " ", "f", "u", "n", "c", "t", "i", "o", "n">>),
        PushStr(function[5][2]),
        PushChar("(")>>
         \o write_function_parameters(function[3], function[4]))
        \o <<PushChar(")")>>)
        \o (IF ~is_empty(function[2]) THEN write_block(function[2]) ELSE <<>>)
        \o <<PushStr(<<"e", "n", "d">>)>>

\* fn write_function
write_function(function) ==
    ((<<PushStr(<<"f", "u", "n", "c", "t", "i", "o", "n">>), PushChar("(")>>
         \o write_function_parameters(function[3], function[4]))
        \o <<PushChar(")")>>)
        \o (IF ~is_empty(function[2]) THEN write_block(function[2]) ELSE <<>>)
        \o <<PushStr(<<"e", "n", "d">>)>>

\* fn write_table_entry
write_table_entry(entry) ==
    CASE Variant(entry) = "Field" ->
             (<<PushStr(entry[2][2]), PushChar("=")>>) \o write_expression(entry[3])
      [] Variant(entry) = "Index" ->
             ((<<PushChar("[")>> \o write_expression(entry[2]))
                 \o <<PushChar("]"), PushChar("=")>>)
                 \o write_expression(entry[3])
      [] Variant(entry) = "Value" -> write_expression(entry[2])

\* mutant: a comma is pushed after every entry, the last one included
RECURSIVE write_table_entries_comma_after_each(_, _)
write_table_entries_comma_after_each(entries, last_index) ==
    IF entries = <<>> THEN <<>>
    ELSE (write_table_entries_comma_after_each(Front(entries), last_index)
             \o write_table_entry(Last(entries)))
             \o <<PushChar(",")>>

\* write_table: entries.iter().enumerate().for_each(|(index, entry)| {
\*     self.write_table_entry(entry);
\*     if index != last_index { self.push_char(','); } })
RECURSIVE write_table_entries(_, _)
write_table_entries(entries, last_index) ==
    IF entries = <<>> THEN <<>>
    ELSE LET position == Len(entries) - 1
         IN  (write_table_entries(Front(entries), last_index)
                 \o write_table_entry(Last(entries)))
                 \o (IF position # last_index THEN <<PushChar(",")>> ELSE <<>>)

\* fn write_table
write_table(table) ==
    (<<PushChar("{")>>
        \o write_table_entries(table[2], Max(Len(table[2]), 1) - 1))
        \o <<PushChar("}")>>

\* fn write_expression
write_expression(expression) ==
    CASE Variant(expression) = "Binary" -> write_binary_expression(expression)
      [] Variant(expression) = "Call" -> write_function_call(expression)
      [] Variant(expression) = "False" -> <<PushStr(<<"f", "a", "l", "s", "e">>)>>
      [] Variant(expression) = "Field" -> write_field(expression)
      [] Variant(expression) = "Function" -> write_function(expression)
      [] Variant(expression) = "Identifier" -> write_identifier(expression)
      [] Variant(expression) = "Index" -> write_index(expression)
      [] Variant(expression) = "Nil" -> <<PushStr(<<"n", "i", "l">>)>>
      [] Variant(expression) = "Number" -> write_number(expression)
      [] Variant(expression) = "Parenthese" -> write_parenthese(expression)
      [] Variant(expression) = "Table" -> write_table(expression)
      [] Variant(expression) = "True" -> <<PushStr(<<"t", "r", "u", "e">>)>>
      [] Variant(expression) = "Unary" -> write_unary_expression(expression)
      [] Variant(expression) = "VariableArguments" ->
             <<PushStrAndBreakIf(<<".", ".", ".">>, "break_variable_arguments")>>

\* LuaGenerator::write_variable
write_variable(variable) == write_expression(variable)

\* fn write_assign_statement
write_assign_statement(assign) ==
    (write_expressions(assign[2], Len(assign[2]) - 1) \o <<PushChar("=")>>)
        \o write_expressions(assign[3], Len(assign[3]) - 1)

\* fn write_local_assign
write_local_assign(assign) ==
    (<<PushStr(<<"l", "o", "c", "a", "l">>)>>
        \o write_names(assign[2], Max(Len(assign[2]), 1) - 1))
        \o (IF assign[3] # <<>>
            THEN <<PushChar("=")>> \o write_expressions(assign[3], Len(assign[3]) - 1)
            ELSE <<>>)

\* fn write_do_statement
write_do_statement(do_statement) ==
    (<<PushStr(<<"d", "o">>)>> \o write_block(do_statement[2]))
        \o <<PushStr(<<"e", "n", "d">>)>>

\* fn write_generic_for
write_generic_for(generic_for) ==
    ((((<<PushStr(<<"f", "o", "r">>)>>
           \o write_names(generic_for[2], Max(Len(generic_for[2]), 1) - 1))
          \o <<PushStr(<<"i", "n">>)>>)
         \o write_expressions(generic_for[3], Max(Len(generic_for[3]), 1) - 1))
        \o <<PushStr(<<"d", "o">>)>>)
        \o (write_block(generic_for[4]) \o <<PushStr(<<"e", "n", "d">>)>>)

\* fn write_last_statement
write_last_statement(statement) ==
    CASE Variant(statement) = "Break" -> <<PushStr(<<"b", "r", "e", "a", "k">>)>>
      [] Variant(statement) = "Continue" ->
             <<PushStr(<<"c", "o", "n", "t", "i", "n", "u", "e">>)>>
      [] Variant(statement) = "Return" ->
             <<PushStr(<<"r", "e", "t", "u", "r", "n">>)>>
                 \o write_expressions(statement[2], Max(Len(statement[2]), 1) - 1)

\* LuaGenerator::write_statement
write_statement(statement) ==
    CASE Variant(statement) = "Assign" -> write_assign_statement(statement)
      [] Variant(statement) = "LocalAssign" -> write_local_assign(statement)
      [] Variant(statement) = "Call" -> write_function_call(statement)
      [] Variant(statement) = "Do" -> write_do_statement(statement)
      [] Variant(statement) = "FunctionStatement" -> write_function_statement(statement)
      [] Variant(statement) = "LocalFunction" -> write_local_function(statement)
      [] Variant(statement) = "GenericFor" -> write_generic_for(statement)

\* the printed form of a statement, without separators
RECURSIVE ContentsOf(_)
ContentsOf(cs) ==
    IF cs = <<>> THEN <<>> ELSE Content(Head(cs)) \o ContentsOf(Tail(cs))

\* generator::utils::starts_with_parenthese
starts_with_parenthese(statement) ==
    LET text == ContentsOf(write_statement(statement))
    IN  text # <<>> /\ text[1] = "("

\* generator::utils::ends_with_prefix
ends_with_prefix(statement) ==
    LET text == ContentsOf(write_statement(statement))
        \* where the last run of word-like characters of text starts
        starts == {i \in 1..Len(text) :
                      \A j \in i..Len(text) : is_relevant_for_spacing(text[j])}
    IN  /\ text # <<>>
        /\ \/ Last(text) \in {"]", ")"}
           \/ /\ starts # {}
              /\ \E i \in starts : (\A j \in starts : i <= j) /\ text[i] \notin Digits

\* mutant: the semicolon is written before every statement that starts with '('
write_block_statement_any_prefix(block_statements, position) ==
    write_statement(block_statements[position])
        \o (IF position < Len(block_statements)
               /\ starts_with_parenthese(block_statements[position + 1])
            THEN <<PushChar(";")>>
            ELSE <<>>)

\* fn write_block: one turn of `while let Some(statement) = statements.next()`
write_block_statement(block_statements, position) ==
    write_statement(block_statements[position])
        \o (IF position < Len(block_statements)
               /\ starts_with_parenthese(block_statements[position + 1])
               /\ ends_with_prefix(block_statements[position])
            THEN <<PushChar(";")>>
            ELSE <<>>)

\* fn write_block: `if let Some(last_statement) = block.get_last_statement()`
write_block_last_statement(block_last_statement) ==
    IF IsSome(block_last_statement)
    THEN write_last_statement(Unwrap(block_last_statement))
    ELSE <<>>

\* fn write_block: the turns of the loop from position on
RECURSIVE write_block_statements(_, _)
write_block_statements(block_statements, position) ==
    IF position > Len(block_statements) THEN <<>>
    ELSE write_block_statement(block_statements, position)
             \o write_block_statements(block_statements, position + 1)

\* fn write_block
write_block(block) ==
    write_block_statements(block[1], 1) \o write_block_last_statement(block[2])

(***************************************************************************)
(* SpecWalk: write_block on a block of at most MaxStatements statements    *)
(* taken from Statements, with a last statement taken from LastStatements  *)
(* or none, on a fresh generator of any budget in 1..MaxWalkSpan.             *)
(***************************************************************************)
Name_a == Identifier(<<"a">>)

Name_b == Identifier(<<"b">>)

Name_c == Identifier(<<"c">>)

Name_f == Identifier(<<"f">>)

Name_x == Identifier(<<"x">>)

Minus(expression) == UnaryExpression("Minus", expression)

Statements ==
    << \* f()
       FunctionCall(Name_f, None, TupleArguments(<<>>)),
       \* (f)()
       FunctionCall(ParentheseExpression(Name_f), None, TupleArguments(<<>>)),
       \* local x=1
       LocalAssignStatement(<<Name_x>>, <<DecimalNumber("finite", 10, None, None)>>),
       \* (a).b=1e2
       AssignStatement(<<FieldExpression(ParentheseExpression(Name_a), Name_b)>>,
                       <<DecimalNumber("finite", 10, Some(2), None)>>),
       \* a=- -b
       AssignStatement(<<Name_a>>, <<Minus(Minus(Name_b))>>),
       \* a=b- -c
       AssignStatement(<<Name_a>>, <<BinaryExpression("Minus", Name_b, Minus(Name_c))>>),
       \* a=-(b-c)
       AssignStatement(<<Name_a>>, <<Minus(BinaryExpression("Minus", Name_b, Name_c))>>),
       \* a=1 ..b
       AssignStatement(<<Name_a>>,
           <<BinaryExpression("Concat", DecimalNumber("finite", 10, None, None), Name_b)>>),
       \* a=0.5 ..b
       AssignStatement(<<Name_a>>,
           <<BinaryExpression("Concat", DecimalNumber("finite", 5, None, None), Name_b)>>),
       \* a=0b101 ..b
       AssignStatement(<<Name_a>>,
           <<BinaryExpression("Concat", BinaryNumber(FALSE, 5), Name_b)>>),
       \* a=0x10 ..b
       AssignStatement(<<Name_a>>,
           <<BinaryExpression("Concat", HexNumber(FALSE, 16, None, None), Name_b)>>),
       \* a=0xf..b
       AssignStatement(<<Name_a>>,
           <<BinaryExpression("Concat", HexNumber(FALSE, 15, None, None), Name_b)>>),
       \* a=b..c
       AssignStatement(<<Name_a>>, <<BinaryExpression("Concat", Name_b, Name_c)>>),
       \* do f()(f)()end
       DoStatement(Block(
           <<FunctionCall(Name_f, None, TupleArguments(<<>>)),
             FunctionCall(ParentheseExpression(Name_f), None, TupleArguments(<<>>))>>,
           None)),
       \* a=(0/0), the number NaN
       AssignStatement(<<Name_a>>, <<DecimalNumber("nan", 0, None, None)>>),
       \* a=(0/0), the division in parentheses
       AssignStatement(<<Name_a>>,
           <<ParentheseExpression(
                 BinaryExpression("Slash", DecimalNumber("finite", 0, None, None),
                                           DecimalNumber("finite", 0, None, None)))>>) >>

LastStatements ==
    << Break,
       Return(<<>>),
       Return(<<Minus(Name_a), Name_b>>) >>

\* the statements of the block being written
BlockStatements == [i \in 1..Len(statements) |-> Statements[statements[i]]]

\* the last statement of the block being written
BlockLastStatement ==
    IF last_statement = 0 THEN None ELSE Some(LastStatements[last_statement])

InitWalk ==
    /\ column_span \in WalkSpans
    /\ current_line_length = new(column_span).current_line_length
    /\ output = new(column_span).output
    /\ last_push_length = new(column_span).last_push_length
    /\ lua_generator = lua_new(column_span)
    /\ calls = <<>>
    /\ relocated = FALSE
    /\ statements \in UNION {[1..n -> 1..Len(Statements)] : n \in 0..MaxStatements}
    /\ last_statement \in 0..Len(LastStatements)
    /\ index = 0
    /\ pc = "write_block"
    /\ count = 0
    /\ plural = <<>>
    /\ locals = <<>>

\* the calls cs are made on the generator, in order
Walk(cs) ==
    /\ SetGen(apply_calls(Gen, cs))
    /\ UNCHANGED <<lua_generator, count, plural, locals>>
    /\ calls' = calls \o cs
    /\ relocated' =
           IF cs = <<>> THEN relocated
           ELSE /\ OpOf(Last(cs)) = "merge_char"
                /\ ~fits_on_current_line(apply_calls(Gen, Front(cs)), 1)

\* write_block: the turn of the loop on the next statement
WriteBlockStatement ==
    /\ pc = "write_block"
    /\ index < Len(statements)
    /\ Walk(write_block_statement(BlockStatements, index + 1))
    /\ index' = index + 1
    /\ UNCHANGED <<statements, last_statement, pc>>

\* write_block: after the loop, the last statement
WriteBlockLastStatement ==
    /\ pc = "write_block"
    /\ index = Len(statements)
    /\ Walk(write_block_last_statement(BlockLastStatement))
    /\ pc' = "done"
    /\ UNCHANGED <<statements, last_statement, index>>

NextWalk ==
    \/ WriteBlockStatement
    \/ WriteBlockLastStatement

SpecWalk == InitWalk /\ [][NextWalk]_vars

(***************************************************************************)
(* Vocabulary of the properties.                                           *)
(***************************************************************************)
\* word-like: ASCII letter, ASCII digit or underscore
WordLike(c) == c \in Letters \cup Digits \cup {"_"}

IsSeparator(c) == c = Space \/ c = NewLine

\* the content of the k-th primitive call
ContentOf(k) == Content(calls[k])

LastCall == calls[Len(calls)]

IsPush(call) == OpOf(call) \in {"push_str", "push_char", "push_str_and_break_if"}

\* number of pushed (non-separator) characters among output[1..i]
Rank(i) == Cardinality({j \in 1..i : ~IsSeparator(output[j])})

\* number of characters pushed by the calls before the k-th
RECURSIVE PushedBefore(_)
PushedBefore(k) == IF k <= 1 THEN 0 ELSE PushedBefore(k - 1) + Len(ContentOf(k - 1))

\* the call that pushed the r-th pushed character (0 when there is none)
FragmentOf(r) ==
    LET owners == {k \in 1..Len(calls) :
                      PushedBefore(k) < r /\ r <= PushedBefore(k) + Len(ContentOf(k))}
    IN  IF owners = {} THEN 0 ELSE CHOOSE k \in owners : TRUE

\* position of the last newline of out (0 when there is none)
LastNewLineAt(out) ==
    LET at == {i \in 1..Len(out) : out[i] = NewLine}
    IN  IF at = {} THEN 0 ELSE CHOOSE i \in at : \A j \in at : j <= i

\* length of the line that position i of out, not a newline, lies on, up to i
ColumnAt(out, i) == i - LastNewLineAt(SubSeq(out, 1, i))

\* every line of out has at most limit characters
LinesWithin(out, limit) ==
    \A i \in 1..Len(out) : out[i] # NewLine => ColumnAt(out, i) <= limit

\* length of the longest fragment pushed by one call
LongestFragment ==
    LET lengths == {Len(ContentOf(k)) : k \in 1..Len(calls)}
    IN  IF lengths = {} THEN 0 ELSE CHOOSE n \in lengths : \A m \in lengths : m <= n

\* number of merge_char calls that directly follow the k-th call
RECURSIVE MergedAfter(_)
MergedAfter(k) ==
    IF k < Len(calls) /\ OpOf(calls[k + 1]) = "merge_char"
    THEN 1 + MergedAfter(k + 1)
    ELSE 0

\* length of the longest fragment, counted with the characters merged onto it
LongestMergedFragment ==
    LET lengths == {Len(ContentOf(k)) + MergedAfter(k) : k \in 1..Len(calls)}
    IN  IF lengths = {} THEN 0 ELSE CHOOSE n \in lengths : \A m \in lengths : m <= n

C2_MergedCharAttached ==
    (calls # <<>> /\ OpOf(LastCall) = "merge_char")
        => /\ Len(calls) >= 2
           /\ Len(output) >= 2
           /\ output[Len(output)] = Content(LastCall)[1]
           /\ output[Len(output) - 1] = Last(ContentOf(Len(calls) - 1))

\* the relocation branch ran, after a fragment that a space preceded
C2_Witness ==
    /\ relocated
    /\ Len(calls) >= 3
    /\ OpOf(calls[Len(calls) - 1]) = "push_str"
    /\ output[Len(output)] = "("
    /\ output[Len(output) - 1] = Last(ContentOf(Len(calls) - 1))
    /\ NewLine = output[Len(output) - last_push_length]

(***************************************************************************)
(* C3 as stated: no line of the output is longer than the larger of the    *)
(* column budget and the longest single pushed fragment.                   *)
(***************************************************************************)
C3_LinesWithinLongestFragment ==
    LinesWithin(output, Max(column_span, LongestFragment))

(***************************************************************************)
(* C3 amended: no line of the output is longer than the larger of the      *)
(* column budget and the longest pushed fragment counted together with     *)
(* the characters merge_char attached to it.                               *)
(***************************************************************************)
C3_LinesWithinLongestMergedFragment ==
    LinesWithin(output, Max(column_span, LongestMergedFragment))

\* a relocated line is longer than the budget and than every pushed fragment
C3_Witness ==
    /\ relocated
    /\ current_line_length > Max(column_span, LongestFragment)
    /\ current_line_length = LongestMergedFragment

(***************************************************************************)
(* C4: a push_str or push_char call, on the dense generator and on         *)
(* LuaGenerator, puts exactly one space between the existing output and    *)
(* the fragment if and only if the fragment's first character is           *)
(* word-like, the output is not empty, its last character is word-like     *)
(* and the fragment with the space fits on the line; in every other case   *)
(* the fragment follows the output directly or after a newline.            *)
(***************************************************************************)
SpaceIffWordsMeet(before, column, span, after, content) ==
    LET words_meet == /\ WordLike(content[1])
                      /\ before # <<>>
                      /\ WordLike(Last(before))
        fits == column + Len(content) + 1 <= span
    IN  /\ (after = (Append(before, Space) \o content)) <=> (words_meet /\ fits)
        /\ ~(words_meet /\ fits)
               => after \in {before \o content, Append(before, NewLine) \o content}
        /\ ~words_meet
               => \A i \in (Len(before) + 1)..Len(after) : after[i] # Space

C4_SpaceIffWordsMeet ==
    [][ (calls' # calls /\ OpOf(calls'[Len(calls')]) \in {"push_str", "push_char"})
        => LET content == Content(calls'[Len(calls')])
           IN  /\ SpaceIffWordsMeet(output, current_line_length, column_span,
                                    output', content)
               /\ SpaceIffWordsMeet(lua_generator.output,
                                    lua_generator.current_line_length,
                                    lua_generator.column_span,
                                    lua_generator'.output, content)
      ]_vars

\* a push has put a space between two word-like characters
C4_Witness ==
    /\ calls # <<>>
    /\ OpOf(LastCall) \in {"push_str", "push_char"}
    /\ Len(output) >= Len(Content(LastCall)) + 2
    /\ output[Len(output) - Len(Content(LastCall))] = Space
    /\ WordLike(output[Len(output) - Len(Content(LastCall)) - 1])
    /\ WordLike(Content(LastCall)[1])
    /\ Len(lua_generator.output) >= Len(Content(LastCall)) + 2
    /\ lua_generator.output[Len(lua_generator.output) - Len(Content(LastCall))] = Space

(***************************************************************************)
(* C8: current_line_length is the number of characters of the output       *)
(* after its last newline (all of them when it has none), after every      *)
(* primitive.                                                              *)
(***************************************************************************)
C8_ColumnIsLineLength ==
    current_line_length = Len(output) - LastNewLineAt(output)

\* after a relocation, on a line that follows a newline
C8_Witness ==
    /\ relocated
    /\ LastNewLineAt(output) > 1
    /\ current_line_length = Len(output) - LastNewLineAt(output)

(***************************************************************************)
(* C9: last_push_length never exceeds current_line_length, and right       *)
(* after a merge_char that relocated the two are equal.                    *)
(***************************************************************************)
C9_LastPushWithinLine ==
    /\ last_push_length <= current_line_length
    /\ relocated => last_push_length = current_line_length

\* a relocation of a fragment of two characters or more
C9_Witness ==
    /\ relocated
    /\ last_push_length >= 3
    /\ last_push_length = current_line_length

(***************************************************************************)
(* C10: after push_str, push_char or push_str_and_break_if, the last       *)
(* last_push_length characters of the output are the fragment just pushed, *)
(* without the separator put before it.                                    *)
(***************************************************************************)
C10_LastPushIsFragment ==
    (calls # <<>> /\ IsPush(LastCall))
        => /\ last_push_length = Len(Content(LastCall))
           /\ last_push_length <= Len(output)
           /\ SubSeq(output, Len(output) - last_push_length + 1, Len(output))
                  = Content(LastCall)
           /\ get_last_push_str(Gen) = Content(LastCall)

\* a fragment of several characters pushed after a separator
C10_Witness ==
    /\ calls # <<>>
    /\ IsPush(LastCall)
    /\ Len(Content(LastCall)) >= 2
    /\ Len(output) > last_push_length
    /\ IsSeparator(output[Len(output) - last_push_length])
    /\ get_last_push_str(Gen) = Content(LastCall)

\* position in the output of the r-th pushed character
PositionOf(r) ==
    CHOOSE i \in 1..Len(output) : ~IsSeparator(output[i]) /\ Rank(i) = r

\* a space or a newline stands right before the fragment of the k-th call
SeparatedFromPrevious(k) ==
    LET at == PositionOf(PushedBefore(k) + 1)
    IN  at > 1 /\ IsSeparator(output[at - 1])

\* the semicolon write_block owes after the i-th statement of the block
ExpectedSemicolon(i) ==
    IF /\ i < Len(statements)
       /\ ends_with_prefix(BlockStatements[i])
       /\ starts_with_parenthese(BlockStatements[i + 1])
    THEN <<PushChar(";")>>
    ELSE <<>>

\* the calls write_block owes for the first k statements of the block
RECURSIVE ExpectedCalls(_)
ExpectedCalls(k) ==
    IF k = 0 THEN <<>>
    ELSE (ExpectedCalls(k - 1) \o write_statement(BlockStatements[k]))
             \o ExpectedSemicolon(k)

(***************************************************************************)
(* C5: write_block writes the statements in order, a ';' right after the   *)
(* whole text of a statement and before the text of the next one if and    *)
(* only if ends_with_prefix holds of the former and starts_with_parenthese *)
(* of the latter, no ';' after the final statement, and the last           *)
(* statement after every statement.                                        *)
(***************************************************************************)
C5_SemicolonBetweenStatements ==
    /\ pc = "write_block" => calls = ExpectedCalls(index)
    /\ pc = "done"
           => /\ index = Len(statements)
              /\ calls = ExpectedCalls(index)
                             \o (IF last_statement = 0 THEN <<>>
                                 ELSE write_last_statement(LastStatements[last_statement]))

\* a finished block of two statements with a ';' between them and a last
\* statement after them
C5_Witness ==
    /\ pc = "done"
    /\ Len(statements) = 2
    /\ last_statement # 0
    /\ ExpectedSemicolon(1) = <<PushChar(";")>>
    /\ \E i \in 2..(Len(output) - 1) :
          /\ output[i] = ";"
          /\ output[i - 1] = ")"
          /\ output[i + 1] = "("

(***************************************************************************)
(* C6: whenever write_binary_expression writes '..' right after the        *)
(* fragment of a numeric literal (a fragment that starts with a digit), a  *)
(* space or a newline stands between the literal and the '..'.             *)
(***************************************************************************)
C6_ConcatSeparatedFromNumber ==
    pc \in {"write_block", "done"} =>
        \A k \in 2..Len(calls) :
            (/\ calls[k] = PushStrAndBreakIf(<<".", ".">>, "break_concat")
             /\ OpOf(calls[k - 1]) = "push_str"
             /\ ContentOf(k - 1)[1] \in Digits)
                => SeparatedFromPrevious(k)

(***************************************************************************)
(* C7: whenever write_unary_expression writes a unary minus right after a  *)
(* fragment that ends in '-', a space or a newline stands before the new   *)
(* '-', and the output never contains '--'.                                *)
(***************************************************************************)
C7_UnaryMinusSeparated ==
    pc \in {"write_block", "done"} =>
        /\ \A k \in 2..Len(calls) :
               (/\ calls[k] = PushStrAndBreakIf(<<"-">>, "break_minus")
                /\ Last(ContentOf(k - 1)) = "-")
                   => SeparatedFromPrevious(k)
        /\ \A i \in 1..(Len(output) - 1) : ~(output[i] = "-" /\ output[i + 1] = "-")

\* a nested unary minus and a unary minus after a binary minus have been
\* written, one kept apart by a space and one by a newline
C7_Witness ==
    /\ pc = "done"
    /\ \E k \in 2..Len(calls) :
          /\ calls[k] = PushStrAndBreakIf(<<"-">>, "break_minus")
          /\ calls[k - 1] = PushStrAndBreakIf(<<"-">>, "break_minus")
    /\ \E k \in 2..Len(calls) :
          /\ calls[k] = PushStrAndBreakIf(<<"-">>, "break_minus")
          /\ calls[k - 1] = PushStr(<<"-">>)
    /\ \E i \in 1..(Len(output) - 2) :
          output[i] = "-" /\ output[i + 1] = Space /\ output[i + 2] = "-"
    /\ \E i \in 1..(Len(output) - 2) :
          output[i] = "-" /\ output[i + 1] = NewLine /\ output[i + 2] = "-"

(***************************************************************************)
(* C11: after every primitive the generator is either empty (no output,    *)
(* current_line_length = 0, last_push_length = 0) or line-open             *)
(* (current_line_length > 0 and last_push_length > 0); the output never    *)
(* ends in a newline between two primitives, and last_push_length is 0     *)
(* only while nothing has been pushed.                                     *)
(***************************************************************************)
C11_EmptyOrLineOpen ==
    /\ \/ (output = <<>> /\ current_line_length = 0 /\ last_push_length = 0)
       \/ (current_line_length > 0 /\ last_push_length > 0)
    /\ ~(current_line_length = 0 /\ output # <<>>)
    /\ output # <<>> => Last(output) # NewLine
    /\ (last_push_length = 0) <=> (calls = <<>>)

\* the last primitive went through push_new_line before it pushed its fragment
C11_Witness ==
    /\ calls # <<>>
    /\ IsPush(LastCall)
    /\ Len(output) > Len(Content(LastCall))
    /\ output[Len(output) - Len(Content(LastCall))] = NewLine
    /\ current_line_length = Len(Content(LastCall))
    /\ last_push_length > 0

(***************************************************************************)
(* C12: one push_str of a non-empty fragment on a new generator, then      *)
(* into_string, gives exactly the fragment, for the dense generator and    *)
(* for LuaGenerator, whatever the column budget.                           *)
(***************************************************************************)
C12_SinglePushGivesFragment ==
    (Len(calls) = 1 /\ OpOf(calls[1]) = "push_str")
        => /\ into_string(Gen) = Content(calls[1])
           /\ lua_into_string(lua_generator) = Content(calls[1])

(***************************************************************************)
(* C13: a generator that has received no write, built by new(n) or by      *)
(* default() (budget 80), is in the empty state and into_string gives the  *)
(* empty string; the same for LuaGenerator.                                *)
(***************************************************************************)
C13_UnusedGeneratorIsEmpty ==
    /\ calls = <<>>
          => /\ output = <<>>
             /\ current_line_length = 0
             /\ last_push_length = 0
             /\ into_string(Gen) = <<>>
             /\ lua_generator.current_line_length = 0
             /\ lua_into_string(lua_generator) = <<>>
    /\ default.column_span = 80
    /\ lua_default.column_span = 80
    /\ (column_span = 80 /\ calls = <<>>)
          => (Gen = default /\ lua_generator = lua_default)

\* the generator of default(), before any write
C13_Witness ==
    /\ calls = <<>>
    /\ pc = "primitives"
    /\ Gen = default
    /\ lua_generator = lua_default
    /\ into_string(Gen) = <<>>

(***************************************************************************)
(* SpecNumber: write_number, called once on a generator of any budget      *)
(* that has already received up to two fragments.                          *)
(***************************************************************************)
PriorFragments ==
    { <<"a">>, <<"=">>, <<"b", "1">>, <<"r", "e", "t", "u", "r", "n">> }

\* the calls made on the generator before write_number
PriorCalls ==
    {<<>>}
        \cup { <<PushStr(first)>> : first \in PriorFragments }
        \cup { <<PushStr(first), PushStr(second)>> :
                   first \in PriorFragments, second \in PriorFragments }

\* number nodes: NaN, the infinities, finite decimals (in tenths) with and
\* without exponent, hexadecimal and binary numbers
Numbers ==
    { DecimalNumber(class, 0, None, None) :
          class \in {"nan", "infinite", "negative_infinite"} }
        \cup { DecimalNumber("finite", tenths, exponent, is_uppercase) :
                   tenths \in {0, 5, 120},
                   exponent \in {None, Some(2)},
                   is_uppercase \in {None, Some(TRUE), Some(FALSE)} }
        \cup { HexNumber(is_x_uppercase, 255, exponent, None) :
                   is_x_uppercase \in BOOLEAN, exponent \in {None, Some(1)} }
        \cup { BinaryNumber(is_b_uppercase, 5) : is_b_uppercase \in BOOLEAN }

InitNumber ==
    /\ column_span \in Spans
    /\ \E prior \in PriorCalls :
           /\ calls = prior
           /\ current_line_length = apply_calls(new(column_span), prior).current_line_length
           /\ output = apply_calls(new(column_span), prior).output
           /\ last_push_length = apply_calls(new(column_span), prior).last_push_length
    /\ lua_generator = lua_new(column_span)
    /\ relocated = FALSE
    /\ statements = <<>>
    /\ last_statement = 0
    /\ index = 0
    /\ pc = "write_number"
    /\ count = 0
    /\ plural = <<>>
    /\ locals = <<>>

WriteNumber ==
    /\ pc = "write_number"
    /\ \E number \in Numbers :
           /\ SetGen(apply_calls(Gen, write_number(number)))
           /\ calls' = calls \o write_number(number)
    /\ pc' = "done"
    /\ UNCHANGED <<lua_generator, relocated, statements, last_statement, index,
                   count, plural, locals>>

NextNumber == WriteNumber

SpecNumber == InitNumber /\ [][NextNumber]_vars

\* the number is a Decimal whose float is of the given class
IsDecimal(number, class) == number[2] = "Decimal" /\ number[3] = class

(***************************************************************************)
(* C14: write_number emits a number as one fragment: NaN is "(0/0)",       *)
(* positive infinity "(1/0)", negative infinity "(-1/0)", and whatever     *)
(* the budget and the output so far, the text of the number is appended    *)
(* whole, after at most one separator, with no space or newline inside.    *)
(***************************************************************************)
C14_NumberIsOneFragment ==
    [][ \A number \in Numbers :
            (pc = "write_number" /\ calls' = calls \o write_number(number))
                => LET text == ContentsOf(write_number(number))
                   IN  /\ IsDecimal(number, "nan") => text = <<"(", "0", "/", "0", ")">>
                       /\ IsDecimal(number, "infinite") => text = <<"(", "1", "/", "0", ")">>
                       /\ IsDecimal(number, "negative_infinite")
                              => text = <<"(", "-", "1", "/", "0", ")">>
                       /\ \E separator \in {<<>>, <<Space>>, <<NewLine>>} :
                              output' = (output \o separator) \o text
      ]_vars

(***************************************************************************)
(* C15: re-parsing the text of write_block(a) gives back a.  Whatever the  *)
(* parser, it maps a text to one block, so the claim requires that no      *)
(* block other than the one written has the same text: here, that          *)
(* replacing any one statement of the written block by a different         *)
(* statement changes the output.                                           *)
(***************************************************************************)
C15_ReparseGivesBlock ==
    (pc = "done" /\ statements # <<>>)
        => \A position \in 1..Len(statements) :
               \A other \in 1..Len(Statements) :
                   Statements[other] # Statements[statements[position]]
                       => into_string(apply_calls(
                              new(column_span),
                              write_block(Block(
                                  [BlockStatements EXCEPT ![position] = Statements[other]],
                                  BlockLastStatement))))
                              # output

(***************************************************************************)
(* frontend::utils::maybe_plural.                                          *)
(***************************************************************************)
\* mutant: one is taken for a plural
maybe_plural_from_one(n) ==
    IF n > 0 THEN <<"s">> ELSE <<>>

\* pub(crate) fn maybe_plural(count: usize) -> &'static str
maybe_plural(n) ==
    IF n > 1 THEN <<"s">> ELSE <<>>

(***************************************************************************)
(* SpecPlural: maybe_plural, called once with a count in 0..MaxCount.      *)
(***************************************************************************)
InitPlural ==
    /\ count \in 0..MaxCount
    /\ plural = <<>>
    /\ locals = <<>>
    /\ pc = "maybe_plural"
    /\ column_span = DefaultSpan
    /\ current_line_length = default.current_line_length
    /\ output = default.output
    /\ last_push_length = default.last_push_length
    /\ lua_generator = lua_default
    /\ calls = <<>>
    /\ relocated = FALSE
    /\ statements = <<>>
    /\ last_statement = 0
    /\ index = 0

MaybePlural ==
    /\ pc = "maybe_plural"
    /\ plural' = maybe_plural(count)
    /\ pc' = "returned"
    /\ UNCHANGED <<gen_vars, lua_generator, calls, relocated, statements,
                   last_statement, index, count, locals>>

NextPlural == MaybePlural

SpecPlural == InitPlural /\ [][NextPlural]_vars

(***************************************************************************)
(* C16: maybe_plural(count) is "s" if and only if count > 1, and the       *)
(* empty string for the counts 0 and 1.                                    *)
(***************************************************************************)
C16_PluralIffAboveOne ==
    pc = "returned"
        => /\ (plural = <<"s">>) <=> (count > 1)
           /\ count \in {0, 1} => plural = <<>>

\* maybe_plural has returned "s" for the count 2
C16_Witness ==
    /\ pc = "returned"
    /\ count = 2
    /\ plural = <<"s">>

(***************************************************************************)
(* C17: push_str(fragment), with L the length of the fragment, chooses     *)
(* its separator by the ordered table: (1) current_line_length >= budget:  *)
(* newline; (2) space required and current_line_length + L + 1 > budget:   *)
(* newline; (3) space required: one space; (4) current_line_length + L >   *)
(* budget: newline; (5) otherwise nothing.  It never emits a space and a   *)
(* newline together; afterwards current_line_length is L after a newline,  *)
(* the previous value + L + 1 after a space, the previous value + L        *)
(* otherwise, and last_push_length is L.                                   *)
(***************************************************************************)
SeparatorOfPushStr(content) ==
    LET L == Len(content)
        space_required == /\ WordLike(content[1])
                          /\ output # <<>>
                          /\ WordLike(Last(output))
    IN  IF current_line_length >= column_span THEN <<NewLine>>
        ELSE IF space_required /\ current_line_length + L + 1 > column_span
        THEN <<NewLine>>
        ELSE IF space_required THEN <<Space>>
        ELSE IF current_line_length + L > column_span THEN <<NewLine>>
        ELSE <<>>

C17_PushStrDecisionTable ==
    [][ (calls' # calls /\ OpOf(calls'[Len(calls')]) = "push_str")
        => LET content == Content(calls'[Len(calls')])
               L == Len(content)
               separator == SeparatorOfPushStr(content)
           IN  /\ output' = (output \o separator) \o content
               /\ current_line_length' =
                      IF separator = <<NewLine>> THEN L
                      ELSE IF separator = <<Space>> THEN current_line_length + L + 1
                      ELSE current_line_length + L
               /\ last_push_length' = L
      ]_vars

\* push_str has broken the line where the fragment alone would have fitted
\* but the fragment with its space did not (row 2 of the table)
C17_Witness ==
    /\ calls # <<>>
    /\ OpOf(LastCall) = "push_str"
    /\ Len(output) >= Len(Content(LastCall)) + 2
    /\ output[Len(output) - Len(Content(LastCall))] = NewLine
    /\ WordLike(output[Len(output) - Len(Content(LastCall)) - 1])
    /\ WordLike(Content(LastCall)[1])
    /\ ColumnAt(output, Len(output) - Len(Content(LastCall)) - 1)
           + Len(Content(LastCall)) = column_span
    /\ current_line_length = Len(Content(LastCall))
    /\ last_push_length = Len(Content(LastCall))

(***************************************************************************)
(* C18: push_str_and_break_if(fragment, predicate): when the predicate     *)
(* holds of the last pushed fragment, exactly one separator comes before   *)
(* the fragment, a space if current_line_length + 1 + len(fragment) <=     *)
(* budget and a newline otherwise; when it does not hold, no space is      *)
(* emitted and a newline only if current_line_length + len(fragment) >     *)
(* budget; the fragment is then appended verbatim and last_push_length is  *)
(* its length.                                                             *)
(***************************************************************************)
\* the fragment of the last call made (empty before the first)
LastPushedFragment == IF calls = <<>> THEN <<>> ELSE Content(LastCall)

SeparatorOfBreakIf(content, predicate) ==
    IF apply_predicate(predicate, LastPushedFragment)
    THEN IF current_line_length + 1 + Len(content) <= column_span
         THEN <<Space>>
         ELSE <<NewLine>>
    ELSE IF current_line_length + Len(content) > column_span
         THEN <<NewLine>>
         ELSE <<>>

C19_MergeCharCountsCharacter ==
    [][ (calls' # calls /\ OpOf(calls'[Len(calls')]) = "merge_char")
        => last_push_length' = last_push_length + 1
      ]_vars

(***************************************************************************)
(* C20: merge_char(c) called with current_line_length + 1 > budget gives   *)
(* as output: the old output without its last last_push_length characters  *)
(* and without the spaces that then end it, a newline, the removed         *)
(* fragment, c; nothing else of the old output is changed or dropped;      *)
(* current_line_length and last_push_length both become the old            *)
(* last_push_length + 1.                                                   *)
(***************************************************************************)
\* s without the space characters at its end
WithoutTrailingSpaces(s) ==
    LET kept == {i \in 0..Len(s) : i = 0 \/ s[i] # Space}
    IN  SubSeq(s, 1, CHOOSE i \in kept : \A j \in kept : j <= i)

C20_RelocationRewritesTail ==
    [][ (/\ calls' # calls
         /\ OpOf(calls'[Len(calls')]) = "merge_char"
         /\ current_line_length + 1 > column_span)
        => LET fragment == SubSeq(output, Len(output) - last_push_length + 1,
                                  Len(output))
               remainder == SubSeq(output, 1, Len(output) - last_push_length)
           IN  /\ output' = ((WithoutTrailingSpaces(remainder) \o <<NewLine>>)
                                 \o fragment) \o Content(calls'[Len(calls')])
               /\ current_line_length' = last_push_length + 1
               /\ last_push_length' = last_push_length + 1
      ]_vars

\* a relocation has removed the space that preceded the relocated fragment
C20_Witness ==
    /\ relocated
    /\ Len(calls) >= 3
    /\ OpOf(calls[Len(calls) - 1]) = "push_str"
    /\ last_push_length = Len(ContentOf(Len(calls) - 1)) + 1
    /\ current_line_length = last_push_length
    /\ Len(output) >= last_push_length + 2
    /\ output[Len(output) - last_push_length] = NewLine
    /\ WordLike(output[Len(output) - last_push_length - 1])
    /\ WordLike(output[Len(output) - last_push_length + 1])

(***************************************************************************)
(* C21: from every reachable state and for every character c, push_char(c) *)
(* and push_str of the one-character string c give the same output, the    *)
(* same current_line_length and the same last_push_length.                 *)
(***************************************************************************)
\* characters pushed by the walker: punctuation, and a letter, a digit and
\* an underscore for the word-like ones
PushedCharacters ==
    {"x", "1", "_", ",", "(", ")", "=", ";", "#", "[", "]", "{", "}", ".", ":", "-", "/"}

ListNames == <<Name_a, Name_b, Name_c>>

ListValues ==
    << Name_x,
       DecimalNumber("finite", 10, None, None),
       FunctionCall(Name_f, None, TupleArguments(<<>>)) >>

ListEntries ==
    << FieldEntry(Name_a, DecimalNumber("finite", 10, None, None)),
       IndexEntry(Name_b, DecimalNumber("finite", 10, None, None)),
       ValueEntry(Name_c) >>

\* the first list, as names, as expressions and as table entries
FirstNames == [i \in 1..Len(statements) |-> ListNames[statements[i]]]

FirstValues == [i \in 1..Len(statements) |-> ListValues[statements[i]]]

FirstEntries == [i \in 1..Len(statements) |-> ListEntries[statements[i]]]

\* the second list, of expressions
SecondValues == [i \in 1..index |-> ListValues[i]]

\* emitters of one list that may be empty
OneListEmitters ==
    {"for_each_and_between", "write_table", "write_last_statement",
     "write_tuple_arguments"}

\* emitters of two lists: the first never empty; the second never empty
\* except for write_local_assign
TwoListEmitters ==
    {"write_generic_for", "write_local_assign", "write_assign_statement"}

InitList ==
    /\ column_span \in Spans
    /\ current_line_length = new(column_span).current_line_length
    /\ output = new(column_span).output
    /\ last_push_length = new(column_span).last_push_length
    /\ lua_generator = lua_new(column_span)
    /\ calls = <<>>
    /\ relocated = FALSE
    /\ pc \in OneListEmitters \cup TwoListEmitters
    /\ statements \in UNION {[1..n -> 1..Len(ListNames)] : n \in 0..MaxList}
    /\ index \in 0..Len(ListValues)
    /\ pc \in OneListEmitters => index = 0
    /\ pc \in TwoListEmitters => Len(statements) >= 1
    /\ pc \in {"write_generic_for", "write_assign_statement"} => index >= 1
    /\ last_statement = 0
    /\ count = 0
    /\ plural = <<>>
    /\ locals = <<>>

\* the calls of the emitter named by pc on the dense generator
ListCalls ==
    CASE pc = "write_table" -> write_table(TableExpression(FirstEntries))
      [] pc = "write_last_statement" -> write_last_statement(Return(FirstValues))
      [] pc = "write_tuple_arguments" ->
             write_function_call(FunctionCall(Name_f, None, TupleArguments(FirstValues)))
      [] pc = "write_generic_for" ->
             write_generic_for(GenericForStatement(FirstNames, SecondValues,
                                                   Block(<<>>, None)))
      [] pc = "write_local_assign" ->
             write_local_assign(LocalAssignStatement(FirstNames, SecondValues))
      [] pc = "write_assign_statement" ->
             write_assign_statement(AssignStatement(FirstNames, SecondValues))
      [] pc = "for_each_and_between" -> <<>>

WriteList ==
    /\ pc \in OneListEmitters \cup TwoListEmitters
    /\ SetGen(apply_calls(Gen, ListCalls))
    /\ calls' = calls \o ListCalls
    /\ lua_generator' =
           IF pc = "for_each_and_between"
           THEN for_each_and_between(lua_generator, FirstNames, "push_name", "push_comma")
           ELSE lua_generator
    /\ pc' = "written"
    /\ UNCHANGED <<relocated, statements, last_statement, index, count, plural,
                   locals>>

NextList == WriteList

SpecList == InitList /\ [][NextList]_vars

(***************************************************************************)
(* C22: every emitter of a comma-separated list writes, for a list of n    *)
(* elements, each element once, in order, with exactly one comma between   *)
(* two consecutive elements: n - 1 commas for n >= 1, none before the      *)
(* first or after the last element, and nothing for an empty list.         *)
(***************************************************************************)
\* out without its spaces and newlines
WithoutSeparators(out) == SelectSeq(out, LAMBDA c : ~IsSeparator(c))

\* the texts, in order, with one comma between two consecutive ones
RECURSIVE Joined(_)
Joined(texts) ==
    IF texts = <<>> THEN <<>>
    ELSE IF Len(texts) = 1 THEN texts[1]
    ELSE (Joined(Front(texts)) \o <<",">>) \o Last(texts)

NameTexts(names) == [i \in 1..Len(names) |-> names[i][2]]

ValueTexts(values) ==
    [i \in 1..Len(values) |-> ContentsOf(write_expression(values[i]))]

EntryTexts(entries) ==
    [i \in 1..Len(entries) |-> ContentsOf(write_table_entry(entries[i]))]

\* the text expected of the emitter named by pc
ExpectedListText ==
    CASE pc = "write_table" ->
             (<<"{">> \o Joined(EntryTexts(FirstEntries))) \o <<"}">>
      [] pc = "write_last_statement" ->
             <<"r", "e", "t", "u", "r", "n">> \o Joined(ValueTexts(FirstValues))
      [] pc = "write_tuple_arguments" ->
             (<<"f", "(">> \o Joined(ValueTexts(FirstValues))) \o <<")">>
      [] pc = "write_generic_for" ->
             (((<<"f", "o", "r">> \o Joined(NameTexts(FirstNames))) \o <<"i", "n">>)
                 \o Joined(ValueTexts(SecondValues))) \o <<"d", "o", "e", "n", "d">>
      [] pc = "write_local_assign" ->
             (<<"l", "o", "c", "a", "l">> \o Joined(NameTexts(FirstNames)))
                 \o (IF index > 0
                     THEN <<"=">> \o Joined(ValueTexts(SecondValues))
                     ELSE <<>>)
      [] pc = "write_assign_statement" ->
             (Joined(NameTexts(FirstNames)) \o <<"=">>)
                 \o Joined(ValueTexts(SecondValues))
      [] pc = "for_each_and_between" -> <<>>

C22_OneCommaBetweenElements ==
    [][ pc' = "written"
        => /\ WithoutSeparators(output') = ExpectedListText
           /\ WithoutSeparators(lua_generator'.output) =
                  IF pc = "for_each_and_between"
                  THEN Joined(NameTexts(FirstNames))
                  ELSE <<>>
      ]_vars

\* a list of three elements has been written over more than one line, with
\* two commas
C22_Witness ==
    /\ pc = "written"
    /\ Len(statements) = 3
    /\ index = 0
    /\ \/ /\ Cardinality({i \in 1..Len(output) : output[i] = ","}) = 2
          /\ \E i \in 1..Len(output) : output[i] = NewLine
          /\ output[1] = "{"
       \/ /\ Cardinality({i \in 1..Len(lua_generator.output) :
                              lua_generator.output[i] = ","}) = 2
          /\ \E i \in 1..Len(lua_generator.output) :
                 lua_generator.output[i] = NewLine

(***************************************************************************)
(* SpecFunction: write_function, write_local_function and                  *)
(* write_function_statement, each called once on a new generator of any    *)
(* budget, with empty and non-empty bodies.                                *)
(***************************************************************************)
Functions ==
    LET bodies == { Block(<<>>, None),
                    Block(<<Statements[1]>>, None),
                    Block(<<>>, Some(Return(<<>>))),
                    Block(<<Statements[3]>>, Some(Break)) }
        lists == { <<>>, <<Name_a>>, <<Name_a, Name_b>> }
        names == { FunctionName(Name_f, <<>>, None),
                   FunctionName(Name_f, <<Name_a>>, Some(Name_b)) }
    IN  { FunctionExpression(block, parameters, is_variadic) :
              block \in bodies, parameters \in lists, is_variadic \in BOOLEAN }
            \cup { LocalFunctionStatement(Name_f, block, parameters, is_variadic) :
                       block \in bodies, parameters \in lists,
                       is_variadic \in BOOLEAN }
            \cup UNION { { FunctionStatement(name, block, parameters, is_variadic) :
                               block \in bodies, parameters \in lists,
                               is_variadic \in BOOLEAN } : name \in names }

\* the calls made for a function of one of the three kinds
FunctionCalls(function) ==
    CASE Variant(function) = "Function" -> write_function(function)
      [] Variant(function) = "LocalFunction" -> write_local_function(function)
      [] Variant(function) = "FunctionStatement" -> write_function_statement(function)

InitFunction ==
    /\ column_span \in Spans
    /\ current_line_length = new(column_span).current_line_length
    /\ output = new(column_span).output
    /\ last_push_length = new(column_span).last_push_length
    /\ lua_generator = lua_new(column_span)
    /\ calls = <<>>
    /\ relocated = FALSE
    /\ statements = <<>>
    /\ last_statement = 0
    /\ index = 0
    /\ pc = "write_function"
    /\ count = 0
    /\ plural = <<>>
    /\ locals = <<>>

WriteFunction ==
    /\ pc = "write_function"
    /\ \E function \in Functions :
           /\ SetGen(apply_calls(Gen, FunctionCalls(function)))
           /\ calls' = calls \o FunctionCalls(function)
    /\ pc' = "written"
    /\ UNCHANGED <<lua_generator, relocated, statements, last_statement, index,
                   count, plural, locals>>

NextFunction == WriteFunction

SpecFunction == InitFunction /\ [][NextFunction]_vars

(***************************************************************************)
(* C23: for a function expression, function statement or local function    *)
(* whose body is empty, the primitive called right after the ')' that      *)
(* closes the parameters pushes "end": no block is written and nothing     *)
(* else comes between ')' and "end"; for a body that is not empty the      *)
(* calls of its block come between the two.                                *)
(***************************************************************************)
\* the position in cs of the push of the ')' that closes the parameters
ClosingParenthese(cs) ==
    CHOOSE k \in 1..Len(cs) :
        /\ cs[k] = PushChar(")")
        /\ \A j \in 1..(k - 1) : cs[j] # PushChar(")")

C23_EndFollowsParameters ==
    [][ \A function \in Functions :
            (pc = "write_function" /\ calls' = calls \o FunctionCalls(function))
                => LET cs == calls'
                       k == ClosingParenthese(cs)
                       body == function[2]
                       end == <<"e", "n", "d">>
                   IN  /\ Last(cs) = PushStr(end)
                       /\ (body[1] = <<>> /\ body[2] = None)
                              => /\ Len(cs) = k + 1
                                 /\ \E tail \in {<<")">> \o end, <<")", NewLine>> \o end} :
                                        /\ Len(output') >= Len(tail)
                                        /\ SubSeq(output', Len(output') - Len(tail) + 1,
                                                  Len(output')) = tail
                       /\ ~(body[1] = <<>> /\ body[2] = None)
                              => /\ Len(cs) > k + 1
                                 /\ SubSeq(cs, k + 1, Len(cs) - 1) = write_block(body)
      ]_vars

\* a function with parameters and an empty body has been written, and its
\* output ends in ")end"
C23_Witness ==
    /\ pc = "written"
    /\ Len(output) >= 6
    /\ SubSeq(output, Len(output) - 5, Len(output)) = <<",", "b", ")", "e", "n", "d">>
    /\ calls[Len(calls) - 1] = PushChar(")")
    /\ LastCall = PushStr(<<"e", "n", "d">>)

(***************************************************************************)
(* SpecMerge: the primitives called in any order, with merge_char taken    *)
(* statement by statement: the loop over (0..last_push_length) and the     *)
(* loop that pops the trailing spaces are one step per iteration.  A       *)
(* fragment of one space is among the pushes, so that the output before    *)
(* the last fragment can be nothing but spaces.                            *)
(***************************************************************************)
MergeFragments == { <<"a">>, <<"b", "1">>, <<Space>> }

\* mutant: the last character is returned and left in the string
pop_keeps_character(out) ==
    IF out = <<>> THEN <<out, None>> ELSE <<out, Some(Last(out))>>

\* String::pop: the string without its last character, and that character
pop(out) ==
    IF out = <<>> THEN <<out, None>> ELSE <<Front(out), Some(Last(out))>>

InitMerge ==
    /\ column_span \in 1..MaxSpan
    /\ current_line_length = new(column_span).current_line_length
    /\ output = new(column_span).output
    /\ last_push_length = new(column_span).last_push_length
    /\ lua_generator = lua_new(column_span)
    /\ calls = <<>>
    /\ relocated = FALSE
    /\ statements = <<>>
    /\ last_statement = 0
    /\ index = 0
    /\ pc = "primitives"
    /\ count = 0
    /\ plural = <<>>
    /\ locals = <<>>

merge_unchanged == <<lua_generator, relocated, statements, last_statement, index,
                     count, plural>>

\* push_str, push_char or push_str_and_break_if, which have no loop
MergePush ==
    /\ pc = "primitives"
    /\ Len(calls) < MaxMergeOps
    /\ \E call \in {PushStr(content) : content \in MergeFragments}
                       \cup {PushChar("x"), PushStrAndBreakIf(<<"-">>, "break_minus")} :
           /\ SetGen(apply_call(Gen, call))
           /\ calls' = Append(calls, call)
    /\ UNCHANGED <<pc, locals>>
    /\ UNCHANGED merge_unchanged

\* fn merge_char(&mut self, character: char): the call
MergeCharCall ==
    /\ pc = "primitives"
    /\ Len(calls) < MaxMergeOps
    /\ \E merged \in MergeChars :
           /\ locals' = [character |-> merged, last_push_content |-> <<>>,
                         last_char |-> None, iteration |-> 0]
           /\ calls' = Append(calls, MergeChar(merged))
    /\ pc' = "merge_char"
    /\ UNCHANGED gen_vars
    /\ UNCHANGED merge_unchanged

\* if self.fits_on_current_line(1) { self.raw_push_char(character); }
MergeCharInPlace ==
    /\ pc = "merge_char"
    /\ fits_on_current_line(Gen, 1)
    /\ SetGen(raw_push_char(Gen, locals.character))
    /\ pc' = "primitives"
    /\ locals' = <<>>
    /\ UNCHANGED calls
    /\ UNCHANGED merge_unchanged

\* let last_push_content = self.get_last_push_str().to_owned();
\* output.len() - last_push_length is a usize subtraction: below zero it
\* panics where overflow is checked and wraps where it is not, and then
\* get(..) is None and the result ""
MergeCharLastPush ==
    /\ pc = "merge_char"
    /\ ~fits_on_current_line(Gen, 1)
    /\ \/ /\ last_push_length <= Len(output)
          /\ locals' = [locals EXCEPT !.last_push_content = get_last_push_str(Gen)]
          /\ pc' = "for_each"
       \/ /\ last_push_length > Len(output)
          /\ \/ pc' = "panicked" /\ UNCHANGED locals
             \/ /\ locals' = [locals EXCEPT !.last_push_content = <<>>]
                /\ pc' = "for_each"
    /\ UNCHANGED <<gen_vars, calls>>
    /\ UNCHANGED merge_unchanged

\* (0..self.last_push_length).for_each(|_| { self.output.pop(); });
MergeCharPop ==
    /\ pc = "for_each"
    /\ locals.iteration < last_push_length
    /\ output' = pop(output)[1]
    /\ locals' = [locals EXCEPT !.iteration = locals.iteration + 1]
    /\ UNCHANGED <<column_span, current_line_length, last_push_length, calls, pc>>
    /\ UNCHANGED merge_unchanged

\* let mut last_char = self.output.pop();
MergeCharLastChar ==
    /\ pc = "for_each"
    /\ locals.iteration >= last_push_length
    /\ output' = pop(output)[1]
    /\ locals' = [locals EXCEPT !.last_char = pop(output)[2]]
    /\ pc' = "while"
    /\ UNCHANGED <<column_span, current_line_length, last_push_length, calls>>
    /\ UNCHANGED merge_unchanged

\* while let Some(' ') = last_char { last_char = self.output.pop(); }
MergeCharWhile ==
    /\ pc = "while"
    /\ locals.last_char = Some(Space)
    /\ output' = pop(output)[1]
    /\ locals' = [locals EXCEPT !.last_char = pop(output)[2]]
    /\ UNCHANGED <<column_span, current_line_length, last_push_length, calls, pc>>
    /\ UNCHANGED merge_unchanged

\* if let Some(last_char) = last_char { self.output.push(last_char); }
\* self.output.push('\n'); self.output.push_str(&last_push_content);
\* self.output.push(character); self.last_push_length += 1;
\* self.current_line_length = self.last_push_length;
MergeCharRelocate ==
    /\ pc = "while"
    /\ locals.last_char # Some(Space)
    /\ output' = (((IF IsSome(locals.last_char)
                    THEN Append(output, Unwrap(locals.last_char))
                    ELSE output)
                       \o <<NewLine>>) \o locals.last_push_content)
                     \o <<locals.character>>
    /\ last_push_length' = last_push_length + 1
    /\ current_line_length' = last_push_length + 1
    /\ pc' = "primitives"
    /\ locals' = <<>>
    /\ UNCHANGED <<column_span, calls>>
    /\ UNCHANGED merge_unchanged

NextMerge ==
    \/ MergePush
    \/ MergeCharCall
    \/ MergeCharInPlace
    \/ MergeCharLastPush
    \/ MergeCharPop
    \/ MergeCharLastChar
    \/ MergeCharWhile
    \/ MergeCharRelocate

SpecMerge == InitMerge /\ [][NextMerge]_vars

\* the emitter is single-threaded and never suspends: a call that has
\* started goes on to its next statement
SpecMergeFair == SpecMerge /\ WF_vars(NextMerge)

(***************************************************************************)
(* C24: every primitive call returns, without a failure: a merge_char      *)
(* that has been called comes back to its caller, also when the loop over  *)
(* the trailing spaces empties the output; between calls                   *)
(* last_push_length <= Len(output), so that get_last_push_str never goes   *)
(* below index 0; and what the calls leave is what the primitives define.  *)
(***************************************************************************)
C24_NoFailure ==
    /\ pc # "panicked"
    /\ pc \in {"primitives", "merge_char"}
           => /\ last_push_length <= Len(output)
              /\ get_last_push_str(Gen)
                     = SubSeq(output, Len(output) - last_push_length + 1, Len(output))
    /\ pc = "primitives" => Gen = apply_calls(new(column_span), calls)

C24_PrimitivesTerminate ==
    /\ []C24_NoFailure
    /\ (pc = "merge_char") ~> (pc = "primitives")

\* a relocation has popped the whole output: the fragment, then nothing but
\* spaces before it
C24_Witness ==
    /\ pc = "while"
    /\ output = <<>>
    /\ locals.last_char = None
    /\ locals.last_push_content = <<"x">>
    /\ calls = <<PushStr(<<Space>>), PushChar("x"), MergeChar("(")>>

(***************************************************************************)
(* C25: after any sequence of primitives whose fragments hold no space and *)
(* no newline, the output without its spaces and newlines is the           *)
(* concatenation, in call order, of the fragments and merged characters    *)
(* passed to the generator: no pushed character is lost, duplicated or     *)
(* moved past another, also across the relocations of merge_char.          *)
(***************************************************************************)
C25_OutputIsPushesInOrder ==
    pc = "primitives"
        => /\ \A k \in 1..Len(calls) :
                  \A i \in 1..Len(ContentOf(k)) : ~IsSeparator(ContentOf(k)[i])
           /\ WithoutSeparators(output) = ContentsOf(calls)

\* a relocation has moved a fragment of several characters to a new line
\* and dropped the space that stood before it
C25_Witness ==
    /\ pc = "primitives"
    /\ relocated
    /\ last_push_length >= 3
    /\ Len(output) > last_push_length + 1
    /\ output[Len(output) - last_push_length] = NewLine
    /\ WordLike(output[Len(output) - last_push_length - 1])
    /\ WordLike(output[Len(output) - last_push_length + 1])
    /\ Len(WithoutSeparators(output)) = Len(ContentsOf(calls))

(***************************************************************************)
(* C26: after any sequence of primitives whose fragments neither start nor *)
(* end with a space or a newline, no space of the output stands next to a  *)
(* newline (no line ends or starts with a space), the output does not end  *)
(* with a space or a newline, and the output has no two spaces in a row.   *)
(***************************************************************************)
C26_NoStraySeparators ==
    pc = "primitives"
        => /\ \A k \in 1..Len(calls) :
                  /\ ~IsSeparator(Head(ContentOf(k)))
                  /\ ~IsSeparator(Last(ContentOf(k)))
           /\ \A i \in 1..(Len(output) - 1) :
                  /\ ~(output[i] = Space /\ output[i + 1] = NewLine)
                  /\ ~(output[i] = NewLine /\ output[i + 1] = Space)
                  /\ ~(output[i] = Space /\ output[i + 1] = Space)
           /\ output # <<>> => ~IsSeparator(Last(output))

\* a relocation has removed the space that stood before the fragment, and
\* the output holds a space put by an earlier push
C26_Witness ==
    /\ pc = "primitives"
    /\ relocated
    /\ Len(output) > last_push_length + 1
    /\ output[Len(output) - last_push_length] = NewLine
    /\ WordLike(output[Len(output) - last_push_length - 1])
    /\ WordLike(output[Len(output) - last_push_length + 1])
    /\ \E i \in 2..(Len(output) - 1) :
          output[i] = Space /\ ~IsSeparator(output[i - 1]) /\ ~IsSeparator(output[i + 1])

====
